---- MODULE Spec2Model ----
(***************************************************************************)
(* ECG Arrhythmia Simulator (src/app.py): a Streamlit script.  Every user  *)
(* interaction re-executes the script top to bottom: the sidebar widgets   *)
(* are evaluated (lines 94-147), generate_ecg is called (lines 151-159)    *)
(* and the chart is plotted (lines 161-166).  generate_ecg is memoised by  *)
(* st.cache_data on its arguments.                                         *)
(*                                                                         *)
(* Text is modelled with TLA+ strings, on which TLC evaluates Len, \o and   *)
(* SubSeq.  The noise level, a float with step 0.01, is counted in         *)
(* hundredths (0.1 is 10).  A signal, a numpy array, is modelled by its     *)
(* length and by what fills it: "zero" for np.zeros, else the name of the  *)
(* waveform the provider drew.                                             *)
(***************************************************************************)
EXTENDS Integers, Sequences, FiniteSets, TLC

VARIABLES
    pc,                        \* position of the script run
    runs,                      \* script runs started so far
    selected_arrhythmia_name,  \* line 94: value of the selectbox
    method_key,                \* line 98
    duration,                  \* line 109: value of the duration slider
    default_hr,                \* lines 117-125
    hr_slider_disabled,        \* line 128
    heart_rate,                \* line 130: value of the heart-rate slider
    noise,                     \* line 138: value of the noise slider, in hundredths
    cache,                     \* st.cache_data store of generate_ecg: arguments -> result
    calls,                     \* nk.ecg_simulate invocations so far: arguments -> count
    dispatched,                \* the requests this run sent to nk.ecg_simulate
    outcome,                   \* how this run obtained its signal
    ecg_signal,                \* line 153
    error,                     \* the st.error message this run shows ("" when none)
    chart                      \* the figure given to st.plotly_chart

vars == <<pc, runs, selected_arrhythmia_name, method_key, duration, default_hr,
          hr_slider_disabled, heart_rate, noise, cache, calls, dispatched,
          outcome, ecg_signal, error, chart>>

\* Script runs explored.
MaxRuns == 3

-----------------------------------------------------------------------------
(* Program constants *)

SAMPLING_RATE == 1000
DURATION_MIN == 5
DURATION_MAX == 30
DURATION_DEFAULT == 10
HR_MIN == 30
HR_MAX_OffByOne == 220 + 1
HR_MAX == 220
HR_BASE_DEFAULT == 70
NOISE_MIN == 0
NOISE_MAX == 50
NOISE_DEFAULT == 10

\* list(ARRHYTHMIA_MAP.keys()): the options of the selectbox, in order.
Labels ==
    << "Normal Sinus Rhythm",
       "Premature Atrial Contraction (PAC)",
       "Premature Ventricular Contraction (PVC)",
       "Atrial Fibrillation (AFib)",
       "Atrial Flutter (AFL)",
       "Supraventricular Tachycardia (SVT/PSVT)",
       "Ventricular Tachycardia (VT)",
       "Ventricular Fibrillation (VF)",
       "1st-Degree AV Block",
       "2nd-Degree AV Block (Wenckebach)",
       "3rd-Degree (Complete) AV Block" >>

Methods ==
    << "normal", "pac", "pvc", "afib", "afl", "svt", "vt", "vf",
       "avb1", "avb2", "avb3" >>

LabelSet == {Labels[i] : i \in 1..Len(Labels)}

ARRHYTHMIA_MAP == [l \in LabelSet |->
                     Methods[CHOOSE i \in 1..Len(Labels) : Labels[i] = l]]

-----------------------------------------------------------------------------
(* Text *)

\* Python's `sub in s` on str.
Contains(sub, s) ==
    \E i \in 1..(Len(s) - Len(sub) + 1) : SubSeq(s, i, i + Len(sub) - 1) = sub

Digit(d) == SubSeq("0123456789", d + 1, d + 1)

RECURSIVE NatStr(_)
NatStr(n) == IF n < 10 THEN Digit(n) ELSE NatStr(n \div 10) \o Digit(n % 10)

\* f"{n}" of an int.
IntStr(n) == IF n < 0 THEN "-" \o NatStr(-n) ELSE NatStr(n)

-----------------------------------------------------------------------------
(* Sidebar: lines 94-147 *)

\* Mutant: the "VT" test placed before the "SVT" test.
default_hr_of_VTFirst(name) ==
    IF Contains("AFib", name) THEN 90
    ELSE IF Contains("VT", name) THEN 180
    ELSE IF Contains("SVT", name) THEN 160
    ELSE IF Contains("Block", name) \/ Contains("Bradycardia", name) THEN 50
    ELSE HR_BASE_DEFAULT

\* Lines 116-125: the default heart rate of a selection.
default_hr_of(name) ==
    IF Contains("AFib", name) THEN 90
    ELSE IF Contains("SVT", name) THEN 160
    ELSE IF Contains("VT", name) THEN 180
    ELSE IF Contains("Block", name) \/ Contains("Bradycardia", name) THEN 50
    ELSE HR_BASE_DEFAULT

\* Mutant: the slider disabled for "vt" instead of "vf".
hr_slider_disabled_of_VT(method) == (method = "vt")

\* Line 128.
hr_slider_disabled_of(method) == (method = "vf")

\* The values a slider offers: every value from min_value to max_value.  The
\* user's choices explored are the two ends, the default, and 95 BPM.
DurationChoices == {DURATION_MIN, DURATION_DEFAULT, DURATION_MAX}
HeartRateChoices == {HR_MIN, 95, HR_MAX}
NoiseChoices == {NOISE_MIN, NOISE_DEFAULT, NOISE_MAX}

\* Lines 130-136.  st.slider keeps one value per widget identity, and the
\* identity is derived from the slider's label, min_value, max_value, value and
\* step, not from `disabled`: the stored value is returned while the default
\* passed as `value` is the one of the previous run, and a slider with another
\* default is a new widget that starts at that default.
heart_rate_slider(previous_default, stored, new_default) ==
    IF new_default = previous_default THEN stored ELSE new_default

-----------------------------------------------------------------------------
(* generate_ecg: lines 15-38 *)

\* Mutant: the catalog method passed on as it is.
simulation_method_Passthrough(method) == method

\* Line 24.
simulation_method(method) == IF method = "normal" THEN "ecgsyn" ELSE method

\* np.zeros(n).
np_zeros(n) == [length |-> n, amplitude |-> "zero"]

\* What nk.ecg_simulate can do with a request: raise, or return one of the
\* waveforms it draws (it is stochastic), duration * sampling_rate samples long.
Waveforms == {"w1", "w2"}
ProviderOutcomes == {"raise"} \cup Waveforms
ProviderError == "ecg_simulate failed"

Clamp(x, lo, hi) == IF x < lo THEN lo ELSE IF x > hi THEN hi ELSE x

\* Mutant: the numeric arguments brought into their bounds before the call.
provider_request_Clamped(d, hr, method, n, rate) ==
    [duration |-> Clamp(d, DURATION_MIN, DURATION_MAX),
     heart_rate |-> Clamp(hr, HR_MIN, HR_MAX),
     method |-> simulation_method(method),
     noise |-> Clamp(n, NOISE_MIN, NOISE_MAX), sampling_rate |-> rate]

\* Lines 28-34: the keyword arguments given to nk.ecg_simulate.
provider_request(d, hr, method, n, rate) ==
    [duration |-> d, heart_rate |-> hr, method |-> simulation_method(method),
     noise |-> n, sampling_rate |-> rate]

ecg_simulate(request, o) ==
    [length |-> request.duration * request.sampling_rate, amplitude |-> o]

\* Mutant: np.zeros(duration).
fallback_signal_Duration(d, rate) == np_zeros(d)

\* Line 38.
fallback_signal(d, rate) == np_zeros(d * rate)

\* Mutant: the exception raised again.
except_clause_Reraise(method, d, rate, e) ==
    [raised |-> TRUE,
     value  |-> fallback_signal(d, rate),
     error  |-> "Error generating signal for method '" \o method \o "': " \o e]

\* Mutant: the failure swallowed without st.error.
except_clause_Silent(method, d, rate, e) ==
    [raised |-> (d * rate < 0),
     value  |-> fallback_signal(d, rate),
     error  |-> ""]

\* Lines 35-38: the except clause.  np.zeros itself raises on a negative length,
\* and that exception leaves generate_ecg.
except_clause(method, d, rate, e) ==
    [raised |-> (d * rate < 0),
     value  |-> fallback_signal(d, rate),
     error  |-> "Error generating signal for method '" \o method \o "': " \o e]

\* Lines 23-38: the body of generate_ecg when nk.ecg_simulate does o.
generate_ecg(d, hr, method, n, rate, o) ==
    IF o \in Waveforms
    THEN [raised |-> FALSE,
          value  |-> ecg_simulate(provider_request(d, hr, method, n, rate), o),
          error  |-> ""]
    ELSE except_clause(simulation_method(method), d, rate, ProviderError)

\* Mutant: heart_rate left out of the key of a rhythm that ignores it.
cache_key_NoRateForVF(d, hr, method, n, rate) ==
    <<d, IF method = "vf" THEN 0 ELSE hr, method, n, rate>>

\* Line 15: st.cache_data keys a result by the values of all the arguments.
cache_key(d, hr, method, n, rate) == <<d, hr, method, n, rate>>

cache_hit(key) == key \in DOMAIN cache

NoSignal == [length |-> 0, amplitude |-> "none"]
NoChart == [signal |-> NoSignal, sampling_rate |-> 0, title |-> "", points |-> 0]
EmptyMap == [k \in {} |-> 0]

\* Lines 151-159: the call generate_ecg(duration, heart_rate, method_key, noise,
\* SAMPLING_RATE) through st.cache_data.  A stored result is returned, and the
\* st.error it showed is replayed, without running the body; otherwise the body
\* runs, nk.ecg_simulate doing one of `outcomes`, and its result is stored.  An
\* exception leaving the body ends the run.
GenerateEcg(after, outcomes) ==
    /\ pc = "generate"
    /\ LET key == cache_key(duration, heart_rate, method_key, noise, SAMPLING_RATE) IN
       \/ /\ cache_hit(key)
          /\ ecg_signal' = cache[key].value
          /\ error' = cache[key].error
          /\ outcome' = "cached"
          /\ dispatched' = {}
          /\ pc' = after
          /\ UNCHANGED <<cache, calls>>
       \/ /\ ~cache_hit(key)
          /\ \E o \in outcomes :
               LET r == generate_ecg(duration, heart_rate, method_key, noise,
                                     SAMPLING_RATE, o)
               IN  /\ dispatched' = {provider_request(duration, heart_rate, method_key,
                                                      noise, SAMPLING_RATE)}
                   /\ calls' = IF key \in DOMAIN calls
                               THEN [calls EXCEPT ![key] = @ + 1]
                               ELSE calls @@ (key :> 1)
                   /\ outcome' = o
                   /\ error' = r.error
                   /\ IF r.raised
                      THEN /\ pc' = "aborted"
                           /\ UNCHANGED <<cache, ecg_signal>>
                      ELSE /\ pc' = after
                           /\ ecg_signal' = r.value
                           /\ cache' = (key :> [value |-> r.value, error |-> r.error])
                                       @@ cache
    /\ UNCHANGED <<runs, selected_arrhythmia_name, method_key, duration, default_hr,
                   hr_slider_disabled, heart_rate, noise, chart>>

-----------------------------------------------------------------------------
(* Plot: lines 41-66 and 161-166 *)

\* Mutant: the heart rate shown for every rhythm.
hr_text_of_Always(hr, disabled) == "HR: " \o IntStr(hr) \o " BPM"

\* Line 162.
hr_text_of(hr, disabled) == IF ~disabled THEN "HR: " \o IntStr(hr) \o " BPM" ELSE ""

\* Line 163.
plot_title_of(name, hr_text) == "Simulated ECG: " \o name \o " (" \o hr_text \o ")"

\* Lines 41-66: one point per sample, at i / sampling_rate seconds.
plot_ecg(signal, rate, title) ==
    [signal |-> signal, sampling_rate |-> rate, title |-> title,
     points |-> signal.length]

Plot ==
    /\ pc = "plot"
    /\ chart' = plot_ecg(ecg_signal, SAMPLING_RATE,
                         plot_title_of(selected_arrhythmia_name,
                                       hr_text_of(heart_rate, hr_slider_disabled)))
    /\ pc' = "idle"
    /\ UNCHANGED <<runs, selected_arrhythmia_name, method_key, duration, default_hr,
                   hr_slider_disabled, heart_rate, noise, cache, calls, dispatched,
                   outcome, ecg_signal, error>>

-----------------------------------------------------------------------------
(* The script run and the user *)

\* Lines 94-147: the widgets return their values and the derived values are
\* computed.  The elements of the previous run, its st.error among them, are
\* replaced by those of this run.
Sidebar ==
    /\ pc = "sidebar"
    /\ method_key' = ARRHYTHMIA_MAP[selected_arrhythmia_name]
    /\ default_hr' = default_hr_of(selected_arrhythmia_name)
    /\ hr_slider_disabled' = hr_slider_disabled_of(method_key')
    /\ heart_rate' = heart_rate_slider(default_hr, heart_rate, default_hr')
    /\ error' = ""
    /\ outcome' = "none"
    /\ dispatched' = {}
    /\ pc' = "generate"
    /\ UNCHANGED <<runs, selected_arrhythmia_name, duration, noise, cache, calls,
                   ecg_signal, chart>>

\* A widget changed by the user starts a new run of the script.
Rerun ==
    /\ pc = "idle"
    /\ runs < MaxRuns
    /\ runs' = runs + 1
    /\ pc' = "sidebar"
    /\ UNCHANGED <<method_key, default_hr, hr_slider_disabled, cache, calls,
                   dispatched, outcome, ecg_signal, error, chart>>

Select(name) ==
    /\ Rerun
    /\ name # selected_arrhythmia_name
    /\ selected_arrhythmia_name' = name
    /\ UNCHANGED <<duration, heart_rate, noise>>

SetDuration(d) ==
    /\ Rerun
    /\ d # duration
    /\ duration' = d
    /\ UNCHANGED <<selected_arrhythmia_name, heart_rate, noise>>

\* A disabled slider takes no input.
SetHeartRate(hr) ==
    /\ Rerun
    /\ ~hr_slider_disabled
    /\ hr # heart_rate
    /\ heart_rate' = hr
    /\ UNCHANGED <<selected_arrhythmia_name, duration, noise>>

SetNoise(n) ==
    /\ Rerun
    /\ n # noise
    /\ noise' = n
    /\ UNCHANGED <<selected_arrhythmia_name, duration, heart_rate>>

\* The script is run again with no widget changed (the Rerun command).
RerunUnchanged ==
    /\ Rerun
    /\ UNCHANGED <<selected_arrhythmia_name, duration, heart_rate, noise>>

\* The session starts with every widget at its default and the first run begun.
Init ==
    /\ pc = "sidebar"
    /\ runs = 1
    /\ selected_arrhythmia_name = Labels[1]
    /\ method_key = ARRHYTHMIA_MAP[Labels[1]]
    /\ duration = DURATION_DEFAULT
    /\ default_hr = HR_BASE_DEFAULT
    /\ hr_slider_disabled = FALSE
    /\ heart_rate = HR_BASE_DEFAULT
    /\ noise = NOISE_DEFAULT
    /\ cache = EmptyMap
    /\ calls = EmptyMap
    /\ dispatched = {}
    /\ outcome = "none"
    /\ ecg_signal = NoSignal
    /\ error = ""
    /\ chart = NoChart

UserAction ==
    \/ \E name \in LabelSet : Select(name)
    \/ \E d \in DurationChoices : SetDuration(d)
    \/ \E hr \in HeartRateChoices : SetHeartRate(hr)
    \/ \E n \in NoiseChoices : SetNoise(n)
    \/ RerunUnchanged

Next ==
    \/ Sidebar
    \/ GenerateEcg("plot", ProviderOutcomes)
    \/ Plot
    \/ UserAction

Spec == Init /\ [][Next]_vars

\* For progress the waveform drawn is immaterial: the provider raises or
\* returns.
RaiseOrReturn == {"raise", "w1"}

LiveNext ==
    \/ Sidebar
    \/ GenerateEcg("plot", RaiseOrReturn)
    \/ Plot
    \/ UserAction

\* The script runner executes a started run to its end.
LiveSpec ==
    /\ Init
    /\ [][LiveNext]_vars
    /\ WF_vars(Sidebar)
    /\ WF_vars(GenerateEcg("plot", RaiseOrReturn))
    /\ WF_vars(Plot)

-----------------------------------------------------------------------------
(* generate_ecg called on its own, with any arguments *)

MaxCalls == 3

CallDurations == {DURATION_MIN - 1, DURATION_MIN, DURATION_MAX, DURATION_MAX + 1}
CallHeartRates == {HR_MIN - 1, HR_MIN, HR_MAX, HR_MAX + 1}
CallNoises == {NOISE_MIN - 1, NOISE_MIN, NOISE_MAX, NOISE_MAX + 1}

\* A first call generate_ecg(duration, heart_rate, method, noise) with an empty
\* cache; sampling_rate takes the value the script passes.
InitCall ==
    /\ pc = "generate"
    /\ runs = 1
    /\ selected_arrhythmia_name \in LabelSet
    /\ method_key = ARRHYTHMIA_MAP[selected_arrhythmia_name]
    /\ duration \in CallDurations
    /\ default_hr = default_hr_of(selected_arrhythmia_name)
    /\ hr_slider_disabled = hr_slider_disabled_of(method_key)
    /\ heart_rate \in CallHeartRates
    /\ noise \in CallNoises
    /\ cache = EmptyMap
    /\ calls = EmptyMap
    /\ dispatched = {}
    /\ outcome = "none"
    /\ ecg_signal = NoSignal
    /\ error = ""
    /\ chart = NoChart

\* A further call, with the same arguments but for heart_rate.
CallAgain(hr) ==
    /\ pc = "returned"
    /\ runs < MaxCalls
    /\ runs' = runs + 1
    /\ heart_rate' = hr
    /\ dispatched' = {}
    /\ outcome' = "none"
    /\ error' = ""
    /\ pc' = "generate"
    /\ UNCHANGED <<selected_arrhythmia_name, method_key, duration, default_hr,
                   hr_slider_disabled, noise, cache, calls, ecg_signal, chart>>

NextCall ==
    \/ GenerateEcg("returned", ProviderOutcomes)
    \/ \E hr \in CallHeartRates : CallAgain(hr)

CallSpec == InitCall /\ [][NextCall]_vars

-----------------------------------------------------------------------------
(* Properties *)

\* The signal of the current run has been obtained.
Generated == pc \in {"plot", "idle", "returned"}

FlatZero(n) == [length |-> n, amplitude |-> "zero"]

TitleFor(name, hr, method) ==
    "Simulated ECG: " \o name \o " ("
        \o (IF method = "vf" THEN "" ELSE "HR: " \o IntStr(hr) \o " BPM") \o ")"

\* C1: when the provider fails, generate_ecg returns instead of raising, an
\* error message is shown, the signal is duration * sampling_rate zeros, and the
\* title of the plot is the one of the selection and heart rate, whatever the
\* provider did.
C1_FallbackOnFailure ==
    /\ (outcome = "raise" /\ pc # "sidebar") =>
          /\ Generated
          /\ error # ""
          /\ ecg_signal = FlatZero(duration * SAMPLING_RATE)
    /\ pc = "idle" =>
          chart.title = TitleFor(selected_arrhythmia_name, heart_rate, method_key)

C1_Witness ==
    /\ pc = "idle"
    /\ outcome = "raise"
    /\ duration = 10
    /\ chart.signal = FlatZero(10000)
    /\ error = "Error generating signal for method 'ecgsyn': ecg_simulate failed"
    /\ chart.title = "Simulated ECG: Normal Sinus Rhythm (HR: 70 BPM)"

OutOfBound(d, hr, n) ==
    \/ d < 5 \/ d > 30
    \/ hr < 30 \/ hr > 220
    \/ n < 0 \/ n > 50

DefaultTable ==
    << 70, 70, 70, 90, 70, 160, 180, 70, 50, 50, 50 >>

LabelIndex(name) == CHOOSE i \in 1..Len(Labels) : Labels[i] = name

\* C3: the default heart rate of the selected label is the one of the first
\* matching rule, and a heart-rate slider whose default changed starts at it.
C3_DefaultHeartRate ==
    [][pc = "sidebar" =>
          /\ default_hr' = DefaultTable[LabelIndex(selected_arrhythmia_name')]
          /\ (default_hr' # default_hr => heart_rate' = default_hr')]_vars

C3_Witness ==
    /\ pc = "generate"
    /\ selected_arrhythmia_name = "Supraventricular Tachycardia (SVT/PSVT)"
    /\ default_hr = 160
    /\ heart_rate = 160

\* C4: the provider receives "ecgsyn" for the catalog method "normal" and the
\* catalog method itself otherwise, and never receives "normal".
C4_MethodRemapped ==
    \A r \in dispatched :
        /\ r.method # "normal"
        /\ pc # "sidebar" =>
               r.method = (IF selected_arrhythmia_name = "Normal Sinus Rhythm"
                           THEN "ecgsyn"
                           ELSE Methods[LabelIndex(selected_arrhythmia_name)])

C4_Witness ==
    /\ \E r \in dispatched : r.method = "ecgsyn"
    /\ method_key = "normal"

C6_DispatchedInBounds ==
    \A r \in dispatched :
        /\ 5 <= r.duration /\ r.duration <= 30
        /\ 30 <= r.heart_rate /\ r.heart_rate <= 220
        /\ 0 <= r.noise /\ r.noise <= 50
        /\ r.sampling_rate = 1000

C6_Witness ==
    /\ \E r \in dispatched : r.heart_rate = 180 /\ r.duration = 30
    /\ selected_arrhythmia_name = "Ventricular Tachycardia (VT)"
    /\ heart_rate = default_hr

DigitChars == {Digit(d) : d \in 0..9}

DigitValue(c) == CHOOSE d \in 0..9 : Digit(d) = c

\* A decimal numeral with no sign and no leading zero.
IsNumeral(s) ==
    /\ Len(s) >= 1
    /\ \A i \in 1..Len(s) : SubSeq(s, i, i) \in DigitChars
    /\ (Len(s) > 1 => SubSeq(s, 1, 1) # "0")

RECURSIVE NumeralValue(_)
NumeralValue(s) ==
    IF Len(s) = 0 THEN 0
    ELSE 10 * NumeralValue(SubSeq(s, 1, Len(s) - 1)) + DigitValue(SubSeq(s, Len(s), Len(s)))

StartsWith(s, p) == Len(s) >= Len(p) /\ SubSeq(s, 1, Len(p)) = p
EndsWith(s, p) == Len(s) >= Len(p) /\ SubSeq(s, Len(s) - Len(p) + 1, Len(s)) = p

\* C7: the title is "Simulated ECG: {label} ({hrText})", hrText being
\* "HR: {heart rate} BPM" for a controllable rhythm and empty for VF.
C7_TitleComposition ==
    pc = "idle" =>
        LET t == chart.title
            head == "Simulated ECG: " \o selected_arrhythmia_name \o " ("
        IN  /\ StartsWith(t, head)
            /\ IF selected_arrhythmia_name = "Ventricular Fibrillation (VF)"
               THEN /\ t = "Simulated ECG: Ventricular Fibrillation (VF) ()"
                    /\ ~Contains("HR:", t)
               ELSE /\ StartsWith(t, head \o "HR: ")
                    /\ EndsWith(t, " BPM)")
                    /\ LET num == SubSeq(t, Len(head) + 5, Len(t) - 5)
                       IN  IsNumeral(num) /\ NumeralValue(num) = heart_rate

C7_Witness ==
    /\ pc = "idle"
    /\ heart_rate = 95
    /\ chart.title = "Simulated ECG: Atrial Fibrillation (AFib) (HR: 95 BPM)"

\* C8 as claimed: the control is disabled exactly for Ventricular Fibrillation,
\* and the request of a rhythm whose control is disabled carries the default
\* heart rate.
C8_DisabledCarriesDefault ==
    pc \in {"generate", "plot", "idle"} =>
        /\ hr_slider_disabled <=> method_key = "vf"
        /\ hr_slider_disabled <=>
               selected_arrhythmia_name = "Ventricular Fibrillation (VF)"
        /\ hr_slider_disabled => heart_rate = default_hr

\* C8 as amended: the control is disabled exactly for Ventricular Fibrillation,
\* and while it is disabled the heart rate of the request does not change: it
\* is the value the control held when the rhythm was selected.
C8_DisabledFrozen ==
    [][/\ pc' \in {"generate", "plot", "idle"} =>
             /\ hr_slider_disabled' <=> method_key' = "vf"
             /\ hr_slider_disabled' <=>
                    selected_arrhythmia_name' = "Ventricular Fibrillation (VF)"
       /\ (hr_slider_disabled /\ hr_slider_disabled') => heart_rate' = heart_rate
      ]_vars

C8_Witness ==
    /\ pc = "idle"
    /\ hr_slider_disabled
    /\ method_key = "vf"
    /\ default_hr = 70
    /\ heart_rate = 95
    /\ \E k \in DOMAIN cache : k[2] = 95 /\ k[3] = "vf"

ChartValid ==
    /\ chart.signal = ecg_signal
    /\ chart.signal.length = duration * 1000
    /\ chart.points = duration * 1000
    /\ chart.signal.amplitude \in {"zero"} \cup Waveforms

\* C9: every run of the script reaches the rendering of a chart of
\* duration * 1000 samples, after a provider failure too; no run is aborted,
\* and the signal of the run is obtained before the plot starts.
C9_RenderingReached ==
    /\ [](pc # "aborted")
    /\ [](pc = "plot" => outcome # "none" /\ ecg_signal.length = duration * 1000)
    /\ [](pc = "idle" => ChartValid /\ (outcome = "raise" => chart.signal.amplitude = "zero"))
    /\ (pc \in {"sidebar", "generate", "plot"}) ~> (pc = "idle")

C9_Witness ==
    /\ pc = "idle"
    /\ runs = 2
    /\ outcome = "raise"
    /\ ChartValid
    /\ chart.signal.amplitude = "zero"

FullKey == <<duration, heart_rate, method_key, noise, 1000>>

\* C10: generate_ecg is memoised on (duration, heart_rate, method, noise,
\* sampling_rate): the provider runs at most once per tuple, a stored result is
\* never replaced, a call with a stored tuple returns the stored signal and
\* does not reach the provider, and a call with a new tuple does.
C10_Memoized ==
    [][/\ \A k \in DOMAIN calls' : calls'[k] = 1
       /\ DOMAIN calls' = DOMAIN cache'
       /\ \A k \in DOMAIN cache : k \in DOMAIN cache' /\ cache'[k] = cache[k]
       /\ (pc = "generate" /\ pc' # "generate") =>
             IF FullKey \in DOMAIN calls
             THEN /\ calls' = calls
                  /\ dispatched' = {}
                  /\ ecg_signal' = cache[FullKey].value
             ELSE /\ DOMAIN calls' = DOMAIN calls \cup {FullKey}
                  /\ dispatched' # {}
      ]_vars

C10_Witness ==
    /\ pc = "returned"
    /\ outcome = "cached"
    /\ ecg_signal.amplitude = "zero"
    /\ method_key = "vf"
    /\ \E j, k \in DOMAIN cache :
          /\ j[3] = "vf" /\ k[3] = "vf"
          /\ j[2] # k[2]
          /\ j[1] = k[1] /\ j[4] = k[4] /\ j[5] = k[5]

====
